---- MODULE Spec2Model ----
(***************************************************************************)
(* The Pomodoro timer page of Profocus (public/js/timer.js) together with  *)
(* the two server handlers it talks to (controllers/goalController.js).    *)
(*                                                                         *)
(* Time is counted in whole seconds.  The page's clock `now` advances by   *)
(* one with every firing of the one-second interval callback, and by the   *)
(* Elapse action while the timer is paused.  The short setTimeout delays   *)
(* (300ms, 500ms, 1500ms) are kept as pending callbacks together with the   *)
(* number of whole seconds that may still pass before they have to fire.   *)
(* Time that passes while the timer is idle is not followed.               *)
(***************************************************************************)
EXTENDS Integers, Sequences, FiniteSets, TLC

VARIABLES
    timer,                 \* state of the interval the variable `timer` refers to
    strayIntervals,        \* live intervals whose handle was overwritten in `timer`
    timeLeft, isRunning, isPaused, isWorkTime,
    workMinutes, breakMinutes,
    startTime, sessions,
    currentPomodoroCount, totalPomodoros,
    value,                 \* DOM: value of #work-minutes, #break-minutes, #goal-select
    disabled,              \* DOM: disabled flag of the buttons and the inputs
    options,               \* DOM: the <option>s of #goal-select that carry a goal
    annotated,             \* DOM: positions of the <li> of #sessions-container with the badge
    timeouts,              \* pending setTimeout callbacks (all of them call startTimer)
    localStorage,          \* the item pomodoro_sessions_<userId>
    completeReqs,          \* POST /goals/:id/complete requests in flight
    saveReqs,              \* POST /goals/pomodoro requests in flight
    dbGoals, dbSessions,   \* the server's goals and pomodoro_sessions tables
    now,                   \* the wall clock, in seconds
    pageLoads              \* number of times the page has been loaded again

vars == <<timer, strayIntervals, timeLeft, isRunning, isPaused, isWorkTime,
          workMinutes, breakMinutes, startTime, sessions, currentPomodoroCount,
          totalPomodoros, value, disabled, options, annotated, timeouts, localStorage,
          completeReqs, saveReqs, dbGoals, dbSessions, now, pageLoads>>

-----------------------------------------------------------------------------
(* Bounds of the exploration *)

\* the clock stops MaxNow seconds after the first page load
MaxNow == 125
\* no Work interval completes once the session log holds MaxSessions records
MaxSessions == 2
\* number of page reloads explored
MaxLoads == 1
\* seconds that pass while one interval is paused
MaxPausedSeconds == 1
\* within an interval, clicks on Pause and Reset and answers of the server are
\* explored before its first tick and in its last MaxEdge seconds
MaxEdge == 1

(* Program constants *)

SecondsPerMinute == 60
DefaultWorkMinutes == 25
DefaultBreakMinutes == 5
DefaultTotalPomodoros == 1
\* seconds in a calendar day: setHours(0, 0, 0, 0) cuts a date to its day
SecondsPerDay == 86400
\* getProductivityScore: INTERVAL 7 DAY and the division by 7
WindowDays == 7
\* INTERVAL 14 DAY of the session statistics
StatsWindowDays == 14
\* "assuming 120 min/day is excellent"
ExcellentMinutes == 120
\* rates are percentages
Percent == 100

NULL == "null"
\* `let startTime;` holds no date before the first start
NoDate == -1

-----------------------------------------------------------------------------
(* Values *)

\* What a user can type into a duration field, or put into the URL.
DurationInputs == {"1", "2", "0"}

\* the strings parseInt reads a number from; every other string gives NaN
IsNumeric(s) == s \in {"1", "2", "3", "5", "25", "0", "-1"}

\* parseInt on the numeric strings that occur in the model
ParseInt(s) ==
    CASE s = "1" -> 1
      [] s = "2" -> 2
      [] s = "3" -> 3
      [] s = "5" -> 5
      [] s = "25" -> 25
      [] s = "-1" -> -1
      [] OTHER -> 0

\* parseInt(s) || d : NaN and 0 are falsy
ParseIntOr(s, d) == IF ~IsNumeric(s) \/ ParseInt(s) = 0 THEN d ELSE ParseInt(s)

\* String(n) for the numbers the page writes into a field
NumberToString(n) ==
    CASE n = 1 -> "1"
      [] n = 2 -> "2"
      [] n = 3 -> "3"
      [] n = 5 -> "5"
      [] n = 25 -> "25"
      [] n = -1 -> "-1"
      [] OTHER -> "0"

\* Date.prototype.toISOString and new Date(isoString)
ToISOString(d) == [iso |-> d]
NewDate(s) == s.iso

\* the start of the calendar day of a date: d.setHours(0, 0, 0, 0)
StartOfDay(d) == d - (d % SecondsPerDay)
IsToday(d, today) == StartOfDay(d) = StartOfDay(today)

\* The goals of the user: id, title and estimated_pomodoros
Goals == {"g1", "g3"}
GoalTitle(g) == IF g = "g1" THEN "Read" ELSE "Write"
GoalEstimated(g) == IF g = "g1" THEN "1" ELSE "3"

\* the <option> rendered for a goal
GoalOption(g) == [value |-> g, text |-> GoalTitle(g), est |-> GoalEstimated(g)]

\* the goal option selected in #goal-select; value "" is the placeholder
HasOption(w, v) == \E o \in w.options : o.value = v
SelectedOption(w) == CHOOSE o \in w.options : o.value = w.value["goal-select"]

ElementIds == {"start-btn", "pause-btn", "work-minutes", "break-minutes", "goal-select"}
InputIds == {"work-minutes", "break-minutes", "goal-select"}

\* the whole state as one record, so that handlers compose like the calls in the code
World ==
    [timer |-> timer, strayIntervals |-> strayIntervals, timeLeft |-> timeLeft,
     isRunning |-> isRunning, isPaused |-> isPaused, isWorkTime |-> isWorkTime,
     workMinutes |-> workMinutes, breakMinutes |-> breakMinutes,
     startTime |-> startTime, sessions |-> sessions,
     currentPomodoroCount |-> currentPomodoroCount, totalPomodoros |-> totalPomodoros,
     value |-> value, disabled |-> disabled, options |-> options,
     annotated |-> annotated,
     timeouts |-> timeouts, localStorage |-> localStorage,
     completeReqs |-> completeReqs, saveReqs |-> saveReqs,
     dbGoals |-> dbGoals, dbSessions |-> dbSessions, now |-> now,
     pageLoads |-> pageLoads]

Becomes(w) ==
    /\ timer' = w.timer
    /\ strayIntervals' = w.strayIntervals
    /\ timeLeft' = w.timeLeft
    /\ isRunning' = w.isRunning
    /\ isPaused' = w.isPaused
    /\ isWorkTime' = w.isWorkTime
    /\ workMinutes' = w.workMinutes
    /\ breakMinutes' = w.breakMinutes
    /\ startTime' = w.startTime
    /\ sessions' = w.sessions
    /\ currentPomodoroCount' = w.currentPomodoroCount
    /\ totalPomodoros' = w.totalPomodoros
    /\ value' = w.value
    /\ disabled' = w.disabled
    /\ options' = w.options
    /\ annotated' = w.annotated
    /\ timeouts' = w.timeouts
    /\ localStorage' = w.localStorage
    /\ completeReqs' = w.completeReqs
    /\ saveReqs' = w.saveReqs
    /\ dbGoals' = w.dbGoals
    /\ dbSessions' = w.dbSessions
    /\ now' = w.now
    /\ pageLoads' = w.pageLoads

-----------------------------------------------------------------------------
(* timer.js *)

\* setInterval(...) assigned to `timer`: the interval `timer` referred to before
\* stays live if it was not cleared
SetInterval(w) ==
    [w EXCEPT !.strayIntervals = IF w.timer = "live" THEN @ + 1 ELSE @,
              !.timer = "live"]

\* clearInterval(timer)
ClearInterval(w) == [w EXCEPT !.timer = IF @ = "live" THEN "cleared" ELSE @]

\* setTimeout(() => startTimer(), delay): slack is the number of whole seconds
\* that can pass before the callback fires
SetTimeout(w, kind, slack) ==
    [w EXCEPT !.timeouts = Append(@, [kind |-> kind, slack |-> slack])]

InitTimer(w) ==
    LET wm == ParseIntOr(w.value["work-minutes"], DefaultWorkMinutes)
        bm == ParseIntOr(w.value["break-minutes"], DefaultBreakMinutes)
    IN  [w EXCEPT !.workMinutes = wm,
                  !.breakMinutes = bm,
                  !.timeLeft = wm * SecondsPerMinute]

\* startTimer that takes the start time only on the first start of the page
StartTimerKeepsStartTime(w) ==
    IF ~w.isRunning
    THEN LET a == [w EXCEPT !.isPaused = FALSE,
                            !.startTime = IF w.isPaused \/ @ # NoDate THEN @ ELSE w.now,
                            !.isRunning = TRUE,
                            !.disabled = [e \in ElementIds |-> e # "pause-btn"]]
         IN  SetInterval(a)
    ELSE w

\* startTimer without the isRunning guard
StartTimerUnguarded(w) ==
    LET a == [w EXCEPT !.isPaused = FALSE,
                       !.startTime = IF w.isPaused THEN @ ELSE w.now,
                       !.isRunning = TRUE,
                       !.disabled = [e \in ElementIds |-> e # "pause-btn"]]
    IN  SetInterval(a)

\* startTimer that takes the start time on a resume as well
StartTimerRestamps(w) ==
    IF ~w.isRunning
    THEN LET a == [w EXCEPT !.isPaused = FALSE,
                            !.startTime = w.now,
                            !.isRunning = TRUE,
                            !.disabled = [e \in ElementIds |-> e # "pause-btn"]]
         IN  SetInterval(a)
    ELSE w

\* startTimer that leaves the duration fields enabled
StartTimerLeavesFields(w) ==
    IF ~w.isRunning
    THEN LET a == [w EXCEPT !.isPaused = FALSE,
                            !.startTime = IF w.isPaused THEN @ ELSE w.now,
                            !.isRunning = TRUE,
                            !.disabled = [@ EXCEPT !["start-btn"] = TRUE,
                                                   !["pause-btn"] = FALSE,
                                                   !["goal-select"] = TRUE]]
         IN  SetInterval(a)
    ELSE w

StartTimer(w) ==
    IF ~w.isRunning
    THEN LET a == [w EXCEPT !.isPaused = FALSE,
                            !.startTime = IF w.isPaused THEN @ ELSE w.now,
                            !.isRunning = TRUE,
                            !.disabled = [e \in ElementIds |-> e # "pause-btn"]]
         IN  SetInterval(a)
    ELSE w

\* pauseTimer without the isRunning guard
PauseTimerUnguarded(w) ==
    LET a == ClearInterval(w)
    IN  [a EXCEPT !.isPaused = TRUE,
                  !.isRunning = FALSE,
                  !.disabled = [@ EXCEPT !["start-btn"] = FALSE,
                                         !["pause-btn"] = TRUE]]

\* pauseTimer that leaves the interval alive
PauseTimerKeepsInterval(w) ==
    IF w.isRunning
    THEN [w EXCEPT !.isPaused = TRUE,
                   !.isRunning = FALSE,
                   !.disabled = [@ EXCEPT !["start-btn"] = FALSE,
                                          !["pause-btn"] = TRUE]]
    ELSE w

PauseTimer(w) ==
    IF w.isRunning
    THEN LET a == ClearInterval(w)
         IN  [a EXCEPT !.isPaused = TRUE,
                       !.isRunning = FALSE,
                       !.disabled = [@ EXCEPT !["start-btn"] = FALSE,
                                              !["pause-btn"] = TRUE]]
    ELSE w

\* resetTimer that leaves the Work/Break flag as it is
ResetTimerKeepsPhase(w) ==
    LET a == ClearInterval(w)
        b == [a EXCEPT !.isRunning = FALSE,
                       !.isPaused = FALSE,
                       !.currentPomodoroCount = 0,
                       !.disabled = [e \in ElementIds |-> e = "pause-btn"]]
    IN  InitTimer(b)

\* resetTimer that also empties the session log
ResetTimerClearsLog(w) ==
    LET a == ClearInterval(w)
        b == [a EXCEPT !.isRunning = FALSE,
                       !.isPaused = FALSE,
                       !.isWorkTime = TRUE,
                       !.currentPomodoroCount = 0,
                       !.sessions = <<>>,
                       !.disabled = [e \in ElementIds |-> e = "pause-btn"]]
    IN  InitTimer(b)

ResetTimer(w) ==
    LET a == ClearInterval(w)
        b == [a EXCEPT !.isRunning = FALSE,
                       !.isPaused = FALSE,
                       !.isWorkTime = TRUE,
                       !.currentPomodoroCount = 0,
                       !.disabled = [e \in ElementIds |-> e = "pause-btn"]]
    IN  InitTimer(b)

\* updateCurrentGoalDisplay that does not reset the count for a selected goal
UpdateCurrentGoalDisplayKeepsCount(w) ==
    IF w.value["goal-select"] # ""
    THEN [w EXCEPT !.totalPomodoros =
                       ParseIntOr(SelectedOption(w).est, DefaultTotalPomodoros)]
    ELSE [w EXCEPT !.totalPomodoros = DefaultTotalPomodoros,
                   !.currentPomodoroCount = 0]

\* updateCurrentGoalDisplay: a selected goal gives its estimated pomodoros,
\* no goal gives one pomodoro; the count starts again in both branches
UpdateCurrentGoalDisplay(w) ==
    IF w.value["goal-select"] # ""
    THEN [w EXCEPT !.currentPomodoroCount = 0,
                   !.totalPomodoros =
                       ParseIntOr(SelectedOption(w).est, DefaultTotalPomodoros)]
    ELSE [w EXCEPT !.totalPomodoros = DefaultTotalPomodoros,
                   !.currentPomodoroCount = 0]

\* fetch(`/goals/${goalId}/complete`, {method: 'POST'})
MarkGoalAsCompleted(w, goalId) ==
    [w EXCEPT !.completeReqs = Append(@, goalId)]

\* a success handler that also drops the label of the sessions of the removed goal
GoalCompletedResponseRelabels(w, goalId) ==
    LET a == [w EXCEPT !.options = {o \in @ : o.value # goalId},
                       !.value = [@ EXCEPT !["goal-select"] = ""],
                       !.sessions = [i \in 1..Len(@) |->
                                        IF @[i].goalId = goalId
                                        THEN [@[i] EXCEPT !.goalText = NULL]
                                        ELSE @[i]]]
    IN  UpdateCurrentGoalDisplay(a)

\* a success handler that removes the option and leaves count and target alone
GoalCompletedResponseKeepsProgress(w, goalId) ==
    [w EXCEPT !.options = {o \in @ : o.value # goalId},
              !.value = [@ EXCEPT !["goal-select"] = ""]]

\* .then(data => { if (data.success) {...} }) of markGoalAsCompleted
GoalCompletedResponse(w, goalId) ==
    LET a == [w EXCEPT !.options = {o \in @ : o.value # goalId},
                       !.value = [@ EXCEPT !["goal-select"] = ""]]
    IN  UpdateCurrentGoalDisplay(a)

\* a failure handler that takes back the record of the interval
GoalCompletedFailureRollsBack(w, goalId) ==
    [w EXCEPT !.sessions = SubSeq(@, 1, Len(@) - 1),
              !.currentPomodoroCount = 0]

\* .catch(error => console.error(...)) of markGoalAsCompleted, also reached by
\* a response that is not ok: the page stays as it is
GoalCompletedFailure(w, goalId) == w

\* .then(data => {...}) of saveSession: with data.goalUpdated and a goal id in
\* the session the badge is appended to #sessions-container li:last-child
SessionSavedResponse(w, req, data) ==
    IF data.success /\ data.goalUpdated /\ req.goalId # NULL /\ Len(w.sessions) > 0
    THEN [w EXCEPT !.annotated = @ \cup {Len(w.sessions)}]
    ELSE w

\* .catch(error => console.error(...)) of saveSession: the page stays as it is
SessionSaveFailure(w, req) == w

\* a saveSession that sends its request twice
SaveSessionTwice(w, session) ==
    LET req == [goalId |-> session.goalId,
                startTime |-> ToISOString(session.startTime),
                endTime |-> ToISOString(session.endTime),
                completed |-> TRUE,
                pomodoroNumber |-> session.pomodoroNumber,
                totalPomodoros |-> session.totalPomodoros]
    IN  [w EXCEPT !.saveReqs = Append(Append(@, req), req)]

\* the body of the POST /goals/pomodoro request
SaveSession(w, session) ==
    [w EXCEPT !.saveReqs = Append(@,
        [goalId |-> session.goalId,
         startTime |-> ToISOString(session.startTime),
         endTime |-> ToISOString(session.endTime),
         completed |-> TRUE,
         pomodoroNumber |-> session.pomodoroNumber,
         totalPomodoros |-> session.totalPomodoros])]

\* JSON.stringify(sessions.map(s => ({...s, startTime: ..toISOString(), ...})))
Serialize(ss) ==
    [i \in 1..Len(ss) |-> [ss[i] EXCEPT !.startTime = ToISOString(@),
                                        !.endTime = ToISOString(@)]]

\* localStorage.getItem gives null for an item that was never written
NoItem == [has |-> FALSE, json |-> <<>>]

\* a setItem that stores the newest record alone
SetItemNewestOnly(w, json, storageOk) ==
    IF storageOk
    THEN [w EXCEPT !.localStorage = [has |-> TRUE, json |-> <<json[Len(json)]>>]]
    ELSE w

\* localStorage.setItem inside try/catch: a failing write leaves the item as it was
SetItem(w, json, storageOk) ==
    IF storageOk THEN [w EXCEPT !.localStorage = [has |-> TRUE, json |-> json]] ELSE w

\* updateSessionsDisplay: sessionsContainer.innerHTML is written anew, and what
\* was appended to the old <li> elements is gone
UpdateSessionsDisplay(w) == [w EXCEPT !.annotated = {}]

\* a record that is numbered with the count before the increment
PushSessionOldCount(w) ==
    LET a == [w EXCEPT !.currentPomodoroCount = @ + 1]
        goalId == IF a.value["goal-select"] # "" THEN a.value["goal-select"] ELSE NULL
        selectedGoalText ==
            IF goalId # NULL /\ HasOption(a, goalId)
            THEN SelectedOption(a).text ELSE NULL
        session == [startTime |-> a.startTime,
                    endTime |-> a.now,
                    duration |-> a.now - a.startTime,
                    isWorkSession |-> TRUE,
                    goalId |-> goalId,
                    goalText |-> selectedGoalText,
                    pomodoroNumber |-> w.currentPomodoroCount,
                    totalPomodoros |-> a.totalPomodoros]
    IN  [a EXCEPT !.sessions = Append(@, session)]

\* lines 177-202: the count goes up and the record of the Work interval that
\* ends now is pushed into the session log
PushSession(w) ==
    LET a == [w EXCEPT !.currentPomodoroCount = @ + 1]
        goalId == IF a.value["goal-select"] # "" THEN a.value["goal-select"] ELSE NULL
        selectedGoalText ==
            IF goalId # NULL /\ HasOption(a, goalId)
            THEN SelectedOption(a).text ELSE NULL
        session == [startTime |-> a.startTime,
                    endTime |-> a.now,
                    duration |-> a.now - a.startTime,
                    isWorkSession |-> TRUE,
                    goalId |-> goalId,
                    goalText |-> selectedGoalText,
                    pomodoroNumber |-> a.currentPomodoroCount,
                    totalPomodoros |-> a.totalPomodoros]
    IN  [a EXCEPT !.sessions = Append(@, session)]

\* a completion that stops after a failed write to localStorage
RecordSessionStopsOnFailure(w, storageOk) ==
    LET b == PushSession(w)
        session == b.sessions[Len(b.sessions)]
        c == SetItem(b, Serialize(b.sessions), storageOk)
    IN  IF storageOk THEN UpdateSessionsDisplay(SaveSession(c, session)) ELSE c

\* lines 177-220: the record is pushed, written to localStorage, sent to the
\* server and displayed
RecordSession(w, storageOk) ==
    LET b == PushSession(w)
        session == b.sessions[Len(b.sessions)]
        c == SetItem(b, Serialize(b.sessions), storageOk)
    IN  UpdateSessionsDisplay(SaveSession(c, session))

\* the comparison of line 223 with > for >=
IsLastPomodoroStrict(w) == w.currentPomodoroCount > w.totalPomodoros

\* line 223: was this the last pomodoro for the goal
IsLastPomodoro(w) == w.currentPomodoroCount >= w.totalPomodoros

\* the final-pomodoro branch without the call of markGoalAsCompleted
FinishGoalSilent(w) ==
    [w EXCEPT !.isWorkTime = TRUE,
              !.timeLeft = w.workMinutes * SecondsPerMinute,
              !.isRunning = FALSE,
              !.disabled = [x \in ElementIds |-> x = "pause-btn"]]

\* lines 224-248: the final pomodoro of the goal
FinishGoal(w) ==
    LET goalId == IF w.value["goal-select"] # "" THEN w.value["goal-select"] ELSE NULL
        a == [w EXCEPT !.isWorkTime = TRUE,
                       !.timeLeft = w.workMinutes * SecondsPerMinute,
                       !.isRunning = FALSE,
                       !.disabled = [x \in ElementIds |-> x = "pause-btn"]]
    IN  IF goalId # NULL THEN MarkGoalAsCompleted(a, goalId) ELSE a

\* the break branch without the delayed startTimer
StartBreakNoAutoStart(w) ==
    LET a == [w EXCEPT !.isWorkTime = FALSE,
                       !.timeLeft = w.breakMinutes * SecondsPerMinute,
                       !.isRunning = FALSE]
    IN  ClearInterval(a)

\* lines 250-264: an intermediate pomodoro, the break starts after 300ms
StartBreak(w) ==
    LET a == [w EXCEPT !.isWorkTime = FALSE,
                       !.timeLeft = w.breakMinutes * SecondsPerMinute,
                       !.isRunning = FALSE]
    IN  SetTimeout(ClearInterval(a), "afterWork", 0)

\* the break branch that also pushes a record into the session log
CompleteBreakRecords(w) ==
    LET a == [w EXCEPT !.isWorkTime = TRUE,
                       !.timeLeft = w.workMinutes * SecondsPerMinute,
                       !.isRunning = FALSE,
                       !.sessions = Append(@, [startTime |-> w.startTime,
                                               endTime |-> w.now,
                                               duration |-> w.now - w.startTime,
                                               isWorkSession |-> FALSE,
                                               goalId |-> NULL,
                                               goalText |-> NULL,
                                               pomodoroNumber |-> w.currentPomodoroCount,
                                               totalPomodoros |-> w.totalPomodoros]),
                       !.disabled = [@ EXCEPT !["start-btn"] = FALSE,
                                              !["pause-btn"] = TRUE]]
    IN  IF a.currentPomodoroCount < a.totalPomodoros
        THEN SetTimeout(a, "afterBreak", 1)
        ELSE [a EXCEPT !.disabled = [x \in ElementIds |->
                           IF x \in InputIds THEN FALSE ELSE @[x]]]

\* the break branch that enables the inputs after every break
CompleteBreakUnlocks(w) ==
    LET a == [w EXCEPT !.isWorkTime = TRUE,
                       !.timeLeft = w.workMinutes * SecondsPerMinute,
                       !.isRunning = FALSE,
                       !.disabled = [x \in ElementIds |-> x = "pause-btn"]]
    IN  IF a.currentPomodoroCount < a.totalPomodoros
        THEN SetTimeout(a, "afterBreak", 1)
        ELSE a

\* the break branch without the delayed startTimer
CompleteBreakNoAutoStart(w) ==
    LET a == [w EXCEPT !.isWorkTime = TRUE,
                       !.timeLeft = w.workMinutes * SecondsPerMinute,
                       !.isRunning = FALSE,
                       !.disabled = [@ EXCEPT !["start-btn"] = FALSE,
                                              !["pause-btn"] = TRUE]]
    IN  IF a.currentPomodoroCount < a.totalPomodoros
        THEN a
        ELSE [a EXCEPT !.disabled = [x \in ElementIds |->
                           IF x \in InputIds THEN FALSE ELSE @[x]]]

\* lines 267-300: the break ends, the next pomodoro starts after 1500ms
CompleteBreak(w) ==
    LET a == [w EXCEPT !.isWorkTime = TRUE,
                       !.timeLeft = w.workMinutes * SecondsPerMinute,
                       !.isRunning = FALSE,
                       !.disabled = [@ EXCEPT !["start-btn"] = FALSE,
                                              !["pause-btn"] = TRUE]]
    IN  IF a.currentPomodoroCount < a.totalPomodoros
        THEN SetTimeout(a, "afterBreak", 1)
        ELSE [a EXCEPT !.disabled = [x \in ElementIds |->
                           IF x \in InputIds THEN FALSE ELSE @[x]]]

CompleteSession(w, storageOk) ==
    IF w.isWorkTime
    THEN LET a == RecordSession(w, storageOk)
         IN  IF IsLastPomodoro(a) THEN FinishGoal(a) ELSE StartBreak(a)
    ELSE CompleteBreak(w)

\* the callback of the one-second interval
IntervalCallback(w, storageOk) ==
    LET a == [w EXCEPT !.timeLeft = @ - 1]
    IN  IF a.timeLeft <= 0
        THEN CompleteSession(ClearInterval(a), storageOk)
        ELSE a

\* completeSession on a page that has no #user-data element: in the Work
\* branch document.getElementById('user-data') is null and line 205 throws a
\* TypeError out of the interval callback, after lines 177-202 and before the
\* rest of completeSession
CompleteSessionNoUserData(w) ==
    IF w.isWorkTime THEN PushSession(w) ELSE CompleteBreak(w)

\* the callback of the one-second interval on that page
IntervalCallbackNoUserData(w) ==
    LET a == [w EXCEPT !.timeLeft = @ - 1]
    IN  IF a.timeLeft <= 0
        THEN CompleteSessionNoUserData(ClearInterval(a))
        ELSE a

\* getUrlParams: the query string gives goalId, duration, breakDuration, autoStart
GetUrlParams(query) ==
    [goalId |-> query.goalId,
     duration |-> ParseIntOr(query.duration, DefaultWorkMinutes),
     breakDuration |-> ParseIntOr(query.breakDuration, DefaultBreakMinutes),
     autoStart |-> query.autoStart]

\* assigning a value no option carries leaves the select without a selection
SetSelectValue(w, v) ==
    [w EXCEPT !.value = [@ EXCEPT !["goal-select"] = IF HasOption(w, v) THEN v ELSE ""]]

InitFromUrlParams(w, query) ==
    LET params == GetUrlParams(query)
        a == IF params.goalId # NULL
             THEN UpdateCurrentGoalDisplay(SetSelectValue(w, params.goalId))
             ELSE [w EXCEPT !.totalPomodoros = DefaultTotalPomodoros]
        b == [a EXCEPT !.value = [@ EXCEPT
                  !["work-minutes"] = NumberToString(params.duration),
                  !["break-minutes"] = NumberToString(params.breakDuration)]]
        c == InitTimer(b)
    IN  IF params.autoStart THEN SetTimeout(c, "autoStart", 0) ELSE c

\* JSON.parse(saved).map(session => ({...session, startTime: new Date(..), ...}))
ParseSessions(saved, fallbackText) ==
    [i \in 1..Len(saved) |->
        [saved[i] EXCEPT !.startTime = NewDate(@),
                         !.endTime = NewDate(@),
                         !.goalText = IF @ = NULL THEN fallbackText ELSE @]]

\* loadSessions: inside the try block the parsed list is assigned to `sessions`
\* and then the name allSessions is read, which no line declares: the
\* ReferenceError is caught and the catch block empties the list
LoadSessions(w) ==
    IF Len(w.sessions) = 0 /\ w.localStorage.has
    THEN LET parsed == ParseSessions(w.localStorage.json, "Goal info not available")
             a == [w EXCEPT !.sessions = parsed]
         IN  [a EXCEPT !.sessions = <<>>]
    ELSE w

\* matchGoalIdsWithDropdown that derives every label from the goal id, by force
MatchGoalIdsWithDropdownForced(w) ==
    [w EXCEPT !.sessions =
        [i \in 1..Len(@) |->
            IF @[i].goalId # NULL /\ HasOption(w, @[i].goalId)
            THEN [@[i] EXCEPT !.goalText =
                     (CHOOSE o \in w.options : o.value = w.sessions[i].goalId).text]
            ELSE [@[i] EXCEPT !.goalText = "Goal info not available"]]]

MatchGoalIdsWithDropdown(w) ==
    [w EXCEPT !.sessions =
        [i \in 1..Len(@) |->
            IF @[i].goalId # NULL /\ HasOption(w, @[i].goalId)
            THEN [@[i] EXCEPT !.goalText =
                     (CHOOSE o \in w.options : o.value = w.sessions[i].goalId).text]
            ELSE @[i]]]

\* initTimerPage: the server's list is mapped into `sessions`; the read of
\* allSessions then throws inside the try block and the mapped list stays
InitTimerPage(w, serverSessions, query) ==
    LET a == IF Len(serverSessions) > 0
             THEN [w EXCEPT !.sessions = ParseSessions(serverSessions, "No goal selected")]
             ELSE w
        b == InitFromUrlParams(a, query)
        c == LoadSessions(b)
    IN  UpdateSessionsDisplay(MatchGoalIdsWithDropdown(c))

-----------------------------------------------------------------------------
(* goalController.js and the schema *)

\* rows of goals with status != "Completed" (getTimer), rendered as options
ActiveGoalOptions(goals) == {GoalOption(g) : g \in {x \in Goals : goals[x] = "Pending"}}

\* DATE(p.start_time) = CURDATE() ... ORDER BY p.start_time DESC
RECURSIVE SortDesc(_)
SortDesc(rows) ==
    IF rows = {} THEN <<>>
    ELSE LET r == CHOOSE x \in rows : \A y \in rows : x.start_time >= y.start_time
         IN  <<r>> \o SortDesc(rows \ {r})

TodayRows(rows, today) ==
    {r \in {rows[i] : i \in 1..Len(rows)} : r.completed /\ IsToday(r.start_time, today)}

\* formattedSessions of getTimer, as the page reads them back from JSON
FormatSession(row, goals) ==
    [id |-> row.id,
     startTime |-> ToISOString(row.start_time),
     endTime |-> ToISOString(row.end_time),
     duration |-> row.end_time - row.start_time,
     isWorkSession |-> TRUE,
     goalId |-> row.goal_id,
     goalText |-> IF row.goal_id # NULL /\ goals[row.goal_id] # "Deleted"
                  THEN GoalTitle(row.goal_id) ELSE "No goal selected",
     pomodoroNumber |-> row.pomodoro_number,
     totalPomodoros |-> row.total_pomodoros]

GetTimer(goals, rows, today) ==
    LET sorted == SortDesc(TodayRows(rows, today))
    IN  [i \in 1..Len(sorted) |-> FormatSession(sorted[i], goals)]

\* moment(iso).format('YYYY-MM-DD HH:mm:ss'): the date to the second
FormatDateTime(iso) == NewDate(iso)

\* SELECT * FROM goals WHERE id = ? AND user_id = ? finds a row: the goal
\* exists and is a goal of the requesting user
GoalOfUser(w, goalId) == goalId \in Goals /\ w.dbGoals[goalId] # "Deleted"

\* updateGoal: the form's status (Pending or Completed, routes/goals.js) is
\* written to a goal of the user
UpdateGoal(w, goalId, status) ==
    IF GoalOfUser(w, goalId)
    THEN [w EXCEPT !.dbGoals = [@ EXCEPT ![goalId] = status]]
    ELSE w

\* deleteGoal: the row of a goal of the user goes, and goal_id of its sessions
\* becomes NULL (FOREIGN KEY (goal_id) ... ON DELETE SET NULL)
DeleteGoal(w, goalId) ==
    IF GoalOfUser(w, goalId)
    THEN [w EXCEPT !.dbGoals = [@ EXCEPT ![goalId] = "Deleted"],
                   !.dbSessions = [i \in 1..Len(@) |->
                                      IF @[i].goal_id = goalId
                                      THEN [@[i] EXCEPT !.goal_id = NULL] ELSE @[i]]]
    ELSE w

\* updateGoalTimerStatus: 400 without goalId or status, 404 unless the goal is
\* a goal of the user, else the status is written
UpdateGoalTimerStatus(w, goalId, status) ==
    IF goalId # NULL /\ GoalOfUser(w, goalId)
    THEN [w EXCEPT !.dbGoals = [@ EXCEPT ![goalId] = status]]
    ELSE w

\* the foreign key on goal_id lets no row refer to a goal that is gone: both
\* INSERTs of recordPomodoro throw and the answer is 500
RecordPomodoroFails(w, req) ==
    req.goalId # NULL /\ w.dbGoals[req.goalId] = "Deleted"

\* goalUpdated of recordPomodoro's answer (lines 145-153)
GoalUpdated(req) ==
    req.goalId # NULL /\ req.completed /\ req.pomodoroNumber >= req.totalPomodoros

\* res.status(200).json({success: true, goalUpdated}) or status 500
RecordPomodoroResponse(w, req) ==
    IF RecordPomodoroFails(w, req)
    THEN [success |-> FALSE, goalUpdated |-> FALSE]
    ELSE [success |-> TRUE, goalUpdated |-> GoalUpdated(req)]

\* recordPomodoro: INSERT INTO pomodoro_sessions, then the status of the goal
\* if it is a goal of the requesting user (WHERE id = ? AND user_id = ?)
RecordPomodoro(w, req) ==
    IF RecordPomodoroFails(w, req) THEN w ELSE
    LET row == [id |-> Len(w.dbSessions) + 1,
                goal_id |-> req.goalId,
                start_time |-> FormatDateTime(req.startTime),
                end_time |-> FormatDateTime(req.endTime),
                completed |-> req.completed,
                pomodoro_number |-> req.pomodoroNumber,
                total_pomodoros |-> req.totalPomodoros]
        a == [w EXCEPT !.dbSessions = Append(@, row)]
    IN  IF GoalUpdated(req) /\ req.goalId \in Goals
        THEN [a EXCEPT !.dbGoals = [@ EXCEPT ![req.goalId] = "Completed"]]
        ELSE a

\* completeGoal: 404 unless the goal exists and is a goal of the user, else
\* its status becomes Completed
CompleteGoalFound(w, goalId) == GoalOfUser(w, goalId)
CompleteGoal(w, goalId) ==
    IF CompleteGoalFound(w, goalId)
    THEN [w EXCEPT !.dbGoals = [@ EXCEPT ![goalId] = "Completed"]]
    ELSE w

-----------------------------------------------------------------------------
(* analyticsController.js: getProductivityScore *)

\* the deadline of a goal: the one of "Read" has passed on the day of the
\* first load, the one of "Write" lies after every day of the exploration
GoalDeadline(g) ==
    IF g = "g1" THEN 0 ELSE (2 + StatsWindowDays) * SecondsPerDay

\* numbers with fractions are kept as <<numerator, denominator>>; every
\* denominator that occurs divides CommonDenominator
CommonDenominator == 3 * WindowDays * ExcellentMinutes

\* Math.round of a fraction that is not negative
Round(q) == (2 * q[1] + q[2]) \div (2 * q[2])

\* Math.min(100, q)
MinPercent(q) == IF q[1] >= Percent * q[2] THEN <<Percent, 1>> ELSE q

\* SUM(TIMESTAMPDIFF(SECOND, start_time, end_time)) over the rows numbered in ids
RECURSIVE SumSeconds(_, _)
SumSeconds(rows, ids) ==
    IF ids = {} THEN 0
    ELSE LET i == CHOOSE x \in ids : TRUE
         IN  (rows[i].end_time - rows[i].start_time) + SumSeconds(rows, ids \ {i})

\* lines 136-201: the five rates, in percent
ScoreRates(goals, rows, today) ==
    LET existing == {g \in Goals : goals[g] # "Deleted"}
        completed == {g \in existing : goals[g] = "Completed"}
        completionRate ==
            IF Cardinality(existing) > 0
            THEN <<Cardinality(completed) * Percent, Cardinality(existing)>>
            ELSE <<0, 1>>
        recent == {i \in 1..Len(rows) :
                      /\ rows[i].completed
                      /\ rows[i].start_time >=
                             StartOfDay(today) - WindowDays * SecondsPerDay}
        daysWithSessions == Cardinality({StartOfDay(rows[i].start_time) : i \in recent})
        consistencyRate == <<daysWithSessions * Percent, WindowDays>>
        focusMinutes == SumSeconds(rows, recent) \div SecondsPerMinute
        focusDurationScore ==
            MinPercent(<<focusMinutes * Percent, WindowDays * ExcellentMinutes>>)
        counted == {i \in 1..Len(rows) :
                       rows[i].start_time >=
                           StartOfDay(today) - StatsWindowDays * SecondsPerDay}
        done == {i \in counted : rows[i].completed}
        sessionCompletionRate ==
            IF Cardinality(counted) > 0
            THEN <<Cardinality(done) * Percent, Cardinality(counted)>>
            ELSE <<Percent, 1>>
        onTime == {g \in completed : GoalDeadline(g) >= StartOfDay(today)}
        timelinessRate ==
            IF Cardinality(existing) > 0
            THEN <<Cardinality(onTime) * Percent, Cardinality(existing)>>
            ELSE <<Percent, 1>>
    IN  [completionRate |-> completionRate,
         consistencyRate |-> consistencyRate,
         focusDurationScore |-> focusDurationScore,
         sessionCompletionRate |-> sessionCompletionRate,
         timelinessRate |-> timelinessRate]

\* the weights of lines 205-209, in percent
ScoreWeights ==
    [completionRate |-> 30, consistencyRate |-> 25, focusDurationScore |-> 20,
     sessionCompletionRate |-> 15, timelinessRate |-> 10]

\* weight * rate, over Percent * CommonDenominator
Weighted(rates, c) ==
    ScoreWeights[c] * rates[c][1] * (CommonDenominator \div rates[c][2])

\* lines 204-267: score and componentScores of the answer
GetProductivityScore(goals, rows, today) ==
    LET rates == ScoreRates(goals, rows, today)
        sum == Weighted(rates, "completionRate") + Weighted(rates, "consistencyRate")
                 + Weighted(rates, "focusDurationScore")
                 + Weighted(rates, "sessionCompletionRate")
                 + Weighted(rates, "timelinessRate")
    IN  [score |-> Round(<<sum, Percent * CommonDenominator>>),
         componentScores |-> [c \in DOMAIN rates |-> Round(rates[c])]]

-----------------------------------------------------------------------------
(* The page and its environment *)

\* the module-level variables and the document as they are before initTimerPage
FreshPage(w) ==
    [w EXCEPT !.timer = "unset", !.strayIntervals = 0, !.timeLeft = 0,
              !.isRunning = FALSE, !.isPaused = FALSE, !.isWorkTime = TRUE,
              !.workMinutes = DefaultWorkMinutes, !.breakMinutes = DefaultBreakMinutes,
              !.startTime = NoDate, !.sessions = <<>>,
              !.currentPomodoroCount = 0, !.totalPomodoros = DefaultTotalPomodoros,
              !.value = [e \in InputIds |->
                            CASE e = "work-minutes" -> NumberToString(DefaultWorkMinutes)
                              [] e = "break-minutes" -> NumberToString(DefaultBreakMinutes)
                              [] OTHER -> ""],
              !.disabled = [e \in ElementIds |-> e = "pause-btn"],
              !.options = ActiveGoalOptions(w.dbGoals),
              !.annotated = {},
              !.timeouts = <<>>, !.completeReqs = <<>>, !.saveReqs = <<>>]

\* GET /goals/timer followed by DOMContentLoaded
PageLoad(w, query) ==
    InitTimerPage(FreshPage(w), GetTimer(w.dbGoals, w.dbSessions, w.now), query)

\* query strings of the timer page
Queries ==
    [goalId : {NULL} \cup Goals, duration : {NULL, "1"},
     breakDuration : {NULL, "1"}, autoStart : BOOLEAN]

\* query strings followed across reloads: one-minute intervals, no auto-start
ReloadQueries ==
    [goalId : {NULL} \cup Goals, duration : {"1"},
     breakDuration : {"1"}, autoStart : {FALSE}]

\* the first second of the day the page is first loaded on
FirstLoad == SecondsPerDay

Blank ==
    [timer |-> "unset", strayIntervals |-> 0, timeLeft |-> 0,
     isRunning |-> FALSE, isPaused |-> FALSE, isWorkTime |-> TRUE,
     workMinutes |-> DefaultWorkMinutes, breakMinutes |-> DefaultBreakMinutes,
     startTime |-> NoDate, sessions |-> <<>>,
     currentPomodoroCount |-> 0, totalPomodoros |-> DefaultTotalPomodoros,
     value |-> [e \in InputIds |-> ""], disabled |-> [e \in ElementIds |-> FALSE],
     options |-> {}, annotated |-> {}, timeouts |-> <<>>, localStorage |-> NoItem,
     completeReqs |-> <<>>, saveReqs |-> <<>>,
     dbGoals |-> [g \in Goals |-> "Pending"], dbSessions |-> <<>>,
     now |-> FirstLoad, pageLoads |-> 0]

Starts(w) ==
    /\ timer = w.timer
    /\ strayIntervals = w.strayIntervals
    /\ timeLeft = w.timeLeft
    /\ isRunning = w.isRunning
    /\ isPaused = w.isPaused
    /\ isWorkTime = w.isWorkTime
    /\ workMinutes = w.workMinutes
    /\ breakMinutes = w.breakMinutes
    /\ startTime = w.startTime
    /\ sessions = w.sessions
    /\ currentPomodoroCount = w.currentPomodoroCount
    /\ totalPomodoros = w.totalPomodoros
    /\ value = w.value
    /\ disabled = w.disabled
    /\ options = w.options
    /\ annotated = w.annotated
    /\ timeouts = w.timeouts
    /\ localStorage = w.localStorage
    /\ completeReqs = w.completeReqs
    /\ saveReqs = w.saveReqs
    /\ dbGoals = w.dbGoals
    /\ dbSessions = w.dbSessions
    /\ now = w.now
    /\ pageLoads = w.pageLoads

Init == \E query \in Queries : Starts(PageLoad(Blank, query))

\* a second can pass only if no pending timeout is due within it
CanAdvance(w) ==
    /\ w.now < FirstLoad + MaxNow
    /\ \A i \in 1..Len(w.timeouts) : w.timeouts[i].slack >= 1

Advance(w) ==
    [w EXCEPT !.now = @ + 1,
              !.timeouts = [i \in 1..Len(@) |-> [@[i] EXCEPT !.slack = @ - 1]]]

RemoveAt(seq, i) == SubSeq(seq, 1, i - 1) \o SubSeq(seq, i + 1, Len(seq))

IntervalLive(w) == w.timer = "live" \/ w.strayIntervals > 0

\* length of the current interval and the ticks it has had
IntervalLength(w) ==
    (IF w.isWorkTime THEN w.workMinutes ELSE w.breakMinutes) * SecondsPerMinute
Ticked(w) == IntervalLength(w) - w.timeLeft

\* the moments at which events other than the tick are explored
AtEdge(w) ==
    \/ ~w.isRunning /\ ~w.isPaused
    \/ Ticked(w) = 0
    \/ w.timeLeft <= MaxEdge

\* click on #start-btn
StartClick ==
    /\ ~disabled["start-btn"]
    /\ Becomes(StartTimer(World))

\* click on #pause-btn
PauseClick ==
    /\ ~disabled["pause-btn"]
    /\ AtEdge(World)
    /\ Becomes(PauseTimer(World))

\* click on #reset-btn
ResetClick ==
    /\ AtEdge(World)
    /\ Becomes(ResetTimer(World))

\* change event of #work-minutes or #break-minutes
ChangeDuration ==
    \E e \in {"work-minutes", "break-minutes"}, v \in DurationInputs :
        /\ ~disabled[e]
        /\ value[e] # v
        /\ Becomes(InitTimer([World EXCEPT !.value = [@ EXCEPT ![e] = v]]))

\* change event of #goal-select
SelectGoal ==
    \E v \in {""} \cup {o.value : o \in options} :
        /\ ~disabled["goal-select"]
        /\ value["goal-select"] # v
        /\ Becomes(UpdateCurrentGoalDisplay(
                      [World EXCEPT !.value = [@ EXCEPT !["goal-select"] = v]]))

\* one second passes and the interval callback runs
Tick ==
    /\ IntervalLive(World)
    /\ CanAdvance(World)
    /\ (timeLeft - 1 <= 0 /\ isWorkTime) => Len(sessions) < MaxSessions
    /\ \E storageOk \in BOOLEAN :
           Becomes(IntervalCallback(Advance(World), storageOk))

\* a pending setTimeout callback runs
TimeoutFires ==
    \E i \in 1..Len(timeouts) :
        Becomes(StartTimer([World EXCEPT !.timeouts = RemoveAt(@, i)]))

\* seconds of the current interval that have passed without a tick
PausedSeconds(w) == (w.now - w.startTime) - Ticked(w)

\* one second passes while the timer is paused (followed for a pause in the
\* last MaxEdge seconds of an interval)
Elapse ==
    /\ isPaused
    /\ timeLeft <= MaxEdge
    /\ ~IntervalLive(World)
    /\ PausedSeconds(World) < MaxPausedSeconds
    /\ CanAdvance(World)
    /\ Becomes(Advance(World))

\* POST /goals/:id/complete is answered: the request reaches the server or not,
\* and the answer reaches the page or not
CompleteGoalAnswered ==
    \E i \in 1..Len(completeReqs), arrives \in BOOLEAN, answered \in BOOLEAN :
        /\ AtEdge(World)
        /\ LET goalId == completeReqs[i]
            a == [World EXCEPT !.completeReqs = RemoveAt(@, i)]
            b == IF arrives THEN CompleteGoal(a, goalId) ELSE a
           IN  Becomes(IF arrives /\ answered /\ CompleteGoalFound(a, goalId)
                       THEN GoalCompletedResponse(b, goalId)
                       ELSE GoalCompletedFailure(b, goalId))

\* POST /goals/pomodoro is answered: the request reaches the server or not,
\* and the answer reaches the page or not
SaveSessionAnswered ==
    \E i \in 1..Len(saveReqs), arrives \in BOOLEAN, answered \in BOOLEAN :
        /\ AtEdge(World)
        /\ LET req == saveReqs[i]
               a == [World EXCEPT !.saveReqs = RemoveAt(@, i)]
               data == RecordPomodoroResponse(a, req)
               b == IF arrives THEN RecordPomodoro(a, req) ELSE a
           IN  Becomes(IF arrives /\ answered /\ data.success
                       THEN SessionSavedResponse(b, req, data)
                       ELSE SessionSaveFailure(b, req))

\* DELETE /goals/:id from the dashboard
DeleteGoalRequest ==
    \E g \in Goals :
        /\ AtEdge(World)
        /\ dbGoals[g] # "Deleted"
        /\ Becomes(DeleteGoal(World, g))

\* the user loads the timer page again, once the requests of the old page are settled
Reload ==
    \E query \in ReloadQueries :
        /\ pageLoads < MaxLoads
        /\ AtEdge(World)
        /\ completeReqs = <<>>
        /\ saveReqs = <<>>
        /\ Becomes(PageLoad([World EXCEPT !.pageLoads = @ + 1], query))

Next ==
    \/ StartClick
    \/ PauseClick
    \/ ResetClick
    \/ ChangeDuration
    \/ SelectGoal
    \/ Tick
    \/ TimeoutFires
    \/ Elapse
    \/ CompleteGoalAnswered

Spec == Init /\ [][Next]_vars

\* runs of the timer together with reloads, the session store and goal deletion
InitReload == \E query \in ReloadQueries : Starts(PageLoad(Blank, query))

NextReload ==
    \/ StartClick
    \/ SelectGoal
    \/ Tick
    \/ TimeoutFires
    \/ CompleteGoalAnswered
    \/ SaveSessionAnswered
    \/ DeleteGoalRequest
    \/ Reload

SpecReload == InitReload /\ [][NextReload]_vars

\* runs that are left to tick: no click on Pause or Reset
NextRun ==
    \/ StartClick
    \/ ChangeDuration
    \/ SelectGoal
    \/ Tick
    \/ TimeoutFires
    \/ CompleteGoalAnswered

SpecRun == Init /\ [][NextRun]_vars

-----------------------------------------------------------------------------
(* A page load on what earlier days and earlier pages have left behind *)

\* moments at which a Work interval of one minute was started: two minutes
\* before midnight, and at midnight
StoredStarts == {FirstLoad - 2 * SecondsPerMinute, FirstLoad}

\* moments at which the server answers GET /timer: the last second of the
\* day, and one minute into the next day
LoadMoments == {FirstLoad - 1, FirstLoad + SecondsPerMinute}

\* seconds between the server's query (CURDATE()) and DOMContentLoaded
LoadDelays == {0, 1}

\* a row of pomodoro_sessions as recordPomodoro inserts it
StoredRow(start, goalId) ==
    [id |-> 0, goal_id |-> goalId,
     start_time |-> start, end_time |-> start + SecondsPerMinute,
     completed |-> TRUE, pomodoro_number |-> 1,
     total_pomodoros |-> IF goalId = NULL THEN DefaultTotalPomodoros
                         ELSE ParseInt(GoalEstimated(goalId))]

\* a record of the session log as completeSession builds it
CachedRecord(start, goalId) ==
    [startTime |-> start, endTime |-> start + SecondsPerMinute,
     duration |-> SecondsPerMinute, isWorkSession |-> TRUE,
     goalId |-> goalId,
     goalText |-> IF goalId = NULL THEN NULL ELSE GoalTitle(goalId),
     pomodoroNumber |-> 1,
     totalPomodoros |-> IF goalId = NULL THEN DefaultTotalPomodoros
                        ELSE ParseInt(GoalEstimated(goalId))]

\* the histories of at most two Work intervals, in the order of their start:
\* each entry is the start and what the interval was bound to
Histories(ids) ==
    {<<>>}
    \cup {<< <<t, g>> >> : t \in StoredStarts, g \in ids}
    \cup {<< <<FirstLoad - 2 * SecondsPerMinute, g>>, <<FirstLoad, h>> >> :
              g \in ids, h \in ids}

StoredRows(history) ==
    [i \in 1..Len(history) |-> StoredRow(history[i][1], history[i][2])]

CachedRecords(history) ==
    [i \in 1..Len(history) |-> CachedRecord(history[i][1], history[i][2])]

\* AUTO_INCREMENT: the rows carry the ids 1, 2, ...
Numbered(rows) == [i \in 1..Len(rows) |-> [rows[i] EXCEPT !.id = i]]

\* what is stored is in the past, and no row refers to a goal that is gone
StoredBefore(w) ==
    /\ \A i \in 1..Len(w.dbSessions) :
           /\ w.dbSessions[i].end_time <= w.now
           /\ w.dbSessions[i].goal_id # NULL =>
                  w.dbGoals[w.dbSessions[i].goal_id] # "Deleted"
    /\ \A i \in 1..Len(w.localStorage.json) :
           NewDate(w.localStorage.json[i].endTime) <= w.now

InitLoad ==
    \E goals \in [Goals -> {"Pending", "Completed", "Deleted"}],
       stored \in Histories({NULL, "g1"}),
       kept \in Histories({NULL, "g1"}),
       has \in BOOLEAN, moment \in LoadMoments :
        LET rows == StoredRows(stored)
            cached == CachedRecords(kept)
            w == [Blank EXCEPT !.dbGoals = goals,
                               !.dbSessions = Numbered(rows),
                               !.localStorage =
                                   IF has THEN [has |-> TRUE, json |-> Serialize(cached)]
                                   ELSE NoItem,
                               !.now = moment]
        IN  /\ has \/ cached = <<>>
            /\ StoredBefore(w)
            /\ Starts(w)

\* GET /timer is answered for the server's day; the page then runs initTimerPage
PageLoadAfter(w, query, delay) ==
    LET served == GetTimer(w.dbGoals, w.dbSessions, w.now)
    IN  InitTimerPage(FreshPage([w EXCEPT !.now = @ + delay]), served, query)

LoadPage ==
    \E query \in ReloadQueries, delay \in LoadDelays :
        /\ pageLoads = 0
        /\ Becomes(PageLoadAfter([World EXCEPT !.pageLoads = @ + 1], query, delay))

NextLoad == LoadPage

SpecLoad == InitLoad /\ [][NextLoad]_vars

-----------------------------------------------------------------------------
(* matchGoalIdsWithDropdown on session lists whose labels differ from the
   texts of the options *)

\* labels a session can carry when the page is loaded: the title the goal had
\* before it was renamed, and the server's text for a session without a goal
StoredLabels == {"Reading", "No goal selected"}

LabelledRecord(start, labelled) ==
    [CachedRecord(start, labelled[1]) EXCEPT !.goalText = labelled[2]]

InitMatch ==
    \E history \in Histories(({NULL} \cup Goals) \X StoredLabels),
       active \in SUBSET Goals :
        Starts([Blank EXCEPT !.sessions =
                                 [i \in 1..Len(history) |->
                                     LabelledRecord(history[i][1], history[i][2])],
                             !.options = {GoalOption(g) : g \in active},
                             !.now = FirstLoad + SecondsPerMinute])

\* the call of matchGoalIdsWithDropdown that ends the page load
MatchLabels ==
    /\ pageLoads = 0
    /\ Becomes(MatchGoalIdsWithDropdown([World EXCEPT !.pageLoads = @ + 1]))

NextMatch == MatchLabels

SpecMatch == InitMatch /\ [][NextMatch]_vars

-----------------------------------------------------------------------------
(* The duration fields with everything a user can type into them *)

\* an integer, zero, a negative integer, a text that is no number, nothing
ConfigInputs == {"1", "0", "-1", "abc", ""}

\* query strings with the same values as duration and breakDuration
ConfigQueries ==
    [goalId : {NULL}, duration : {NULL, "1", "0", "-1", "abc"},
     breakDuration : {NULL, "-1"}, autoStart : BOOLEAN]

InitConfig == \E query \in ConfigQueries : Starts(PageLoad(Blank, query))

\* change event of #work-minutes or #break-minutes
ChangeConfig ==
    \E e \in {"work-minutes", "break-minutes"}, v \in ConfigInputs :
        /\ ~disabled[e]
        /\ value[e] # v
        /\ Becomes(InitTimer([World EXCEPT !.value = [@ EXCEPT ![e] = v]]))

NextConfig ==
    \/ ChangeConfig
    \/ StartClick
    \/ PauseClick
    \/ ResetClick
    \/ Tick
    \/ TimeoutFires

SpecConfig == InitConfig /\ [][NextConfig]_vars

-----------------------------------------------------------------------------
(* The timer page rendered without the #user-data element *)

\* one second passes and the interval callback runs
TickNoUserData ==
    /\ IntervalLive(World)
    /\ CanAdvance(World)
    /\ (timeLeft - 1 <= 0 /\ isWorkTime) => Len(sessions) < MaxSessions
    /\ Becomes(IntervalCallbackNoUserData(Advance(World)))

NextNoUserData ==
    \/ StartClick
    \/ PauseClick
    \/ ResetClick
    \/ SelectGoal
    \/ TickNoUserData

SpecNoUserData == Init /\ [][NextNoUserData]_vars

-----------------------------------------------------------------------------
(* POST /goals/pomodoro with every body an authenticated client can send *)

\* a goal of another user
OtherGoals == {"g9"}

PomodoroRequests ==
    [goalId : {NULL} \cup Goals \cup OtherGoals,
     startTime : {ToISOString(FirstLoad)},
     endTime : {ToISOString(FirstLoad + SecondsPerMinute)},
     completed : BOOLEAN,
     pomodoroNumber : {1, 3},
     totalPomodoros : {1, 3}]

InitServer ==
    \E goals \in [Goals \cup OtherGoals -> {"Pending", "Completed", "Deleted"}] :
        Starts([Blank EXCEPT !.dbGoals = goals, !.now = FirstLoad + SecondsPerMinute])

RecordPomodoroRequest ==
    \E req \in PomodoroRequests :
        /\ Len(dbSessions) < MaxSessions
        /\ Becomes(RecordPomodoro(World, req))

NextServer == RecordPomodoroRequest

SpecServer == InitServer /\ [][NextServer]_vars

-----------------------------------------------------------------------------
(* getProductivityScore on the tables that days of use leave behind: goals  *)
(* in every status and at most one stored session on each of the calendar   *)
(* days from WindowDays + 1 days ago to today                                *)

\* the day the score is asked for
ScoreDay == FirstLoad + (WindowDays + 1) * SecondsPerDay

InitScore ==
    \E goals \in [Goals -> {"Pending", "Completed", "Deleted"}] :
        Starts([Blank EXCEPT !.dbGoals = goals, !.now = ScoreDay])

\* POST /goals/pomodoro for a session of the default length that started
\* daysAgo days ago; the rows are stored oldest first
StoreSession ==
    \E daysAgo \in 0..(WindowDays + 1), completed \in BOOLEAN :
        LET start == StartOfDay(now) - daysAgo * SecondsPerDay
        IN  /\ \A i \in 1..Len(dbSessions) : dbSessions[i].start_time < start
            /\ Becomes(RecordPomodoro(World,
                   [goalId |-> NULL,
                    startTime |-> ToISOString(start),
                    endTime |-> ToISOString(start + DefaultWorkMinutes * SecondsPerMinute),
                    completed |-> completed,
                    pomodoroNumber |-> 1,
                    totalPomodoros |-> 1]))

NextScore == StoreSession

SpecScore == InitScore /\ [][NextScore]_vars

-----------------------------------------------------------------------------
(* The requests of one user that name a goal, with every goal id: the       *)
(* user's own goals and a goal of another user                              *)

AnyGoals == Goals \cup OtherGoals

\* PUT /goals/:id
UpdateGoalRequest ==
    \E g \in AnyGoals, status \in {"Pending", "Completed"} :
        Becomes(UpdateGoal(World, g, status))

\* DELETE /goals/:id
DeleteAnyGoalRequest ==
    \E g \in AnyGoals : Becomes(DeleteGoal(World, g))

\* POST /goals/:id/complete
CompleteAnyGoalRequest ==
    \E g \in AnyGoals : Becomes(CompleteGoal(World, g))

\* POST /goals/timer-status with a status the goals table can hold
TimerStatusRequest ==
    \E g \in {NULL} \cup AnyGoals, status \in {"Pending", "Completed"} :
        Becomes(UpdateGoalTimerStatus(World, g, status))

NextIsolation ==
    \/ UpdateGoalRequest
    \/ DeleteAnyGoalRequest
    \/ CompleteAnyGoalRequest
    \/ TimerStatusRequest
    \/ RecordPomodoroRequest

SpecIsolation == InitServer /\ [][NextIsolation]_vars

-----------------------------------------------------------------------------
(* One run of a goal that is left to itself: the user starts the timer (or  *)
(* the page does, with autoStart) and then touches nothing.  The interval   *)
(* fires every second while it is live and a setTimeout callback fires when *)
(* it is due.                                                               *)

\* query strings that bind a goal
RunQueries ==
    [goalId : Goals, duration : {"1", "2"}, breakDuration : {"1"},
     autoStart : BOOLEAN]

InitLive == \E query \in RunQueries : Starts(PageLoad(Blank, query))

\* the one click on #start-btn, on the idle page
StartRun ==
    /\ ~disabled["start-btn"]
    /\ startTime = NoDate
    /\ Becomes(StartTimer(World))

\* one second passes and the interval callback runs
TickLive ==
    /\ IntervalLive(World)
    /\ \A i \in 1..Len(timeouts) : timeouts[i].slack >= 1
    /\ \E storageOk \in BOOLEAN :
           Becomes(IntervalCallback(Advance(World), storageOk))

NextLive ==
    \/ StartRun
    \/ TickLive
    \/ TimeoutFires
    \/ CompleteGoalAnswered

SpecLive ==
    InitLive /\ [][NextLive]_vars /\ WF_vars(TickLive) /\ WF_vars(TimeoutFires)

-----------------------------------------------------------------------------
(* Properties *)

InputsUnlocked == \A e \in InputIds : ~disabled[e]

\* steps, told by what they change
SamePage == pageLoads' = pageLoads
TickStep == SamePage /\ isRunning /\ now' = now + 1
WorkCompletes == SamePage /\ Len(sessions') = Len(sessions) + 1
BreakCompletes == TickStep /\ ~isWorkTime /\ timeLeft - 1 <= 0
TimeoutStep == SamePage /\ Len(timeouts') < Len(timeouts)
LastSession == sessions'[Len(sessions')]

\* the goal bound to the run and its estimated pomodoros
TargetOf(v) == IF v = "" THEN DefaultTotalPomodoros
               ELSE ParseIntOr(GoalEstimated(v), DefaultTotalPomodoros)

\* the records of a session list that started on the day of `today`
RECURSIVE TodayOnly(_, _)
TodayOnly(ss, today) ==
    IF ss = <<>> THEN <<>>
    ELSE (IF IsToday(Head(ss).startTime, today) THEN <<Head(ss)>> ELSE <<>>)
             \o TodayOnly(Tail(ss), today)

\* C1: in every reachable state the number of completed pomodoros
\* (currentPomodoroCount) is at most the target (totalPomodoros).
C1_CountWithinTarget == currentPomodoroCount <= totalPomodoros

\* C2: a reload with no sessions from the server, and with the local cache
\* holding the serialization of the session log, gives a session log that
\* holds exactly the records of the old log that started today.
C2_RoundTrip ==
    [][(/\ pageLoads' = pageLoads + 1
        /\ GetTimer(dbGoals, dbSessions, now) = <<>>
        /\ localStorage = [has |-> TRUE, json |-> Serialize(sessions)])
       => sessions' = TodayOnly(sessions, now)]_vars

\* C3: in runs without Pause and Reset the session log changes only when a
\* running Work interval ticks to zero; that tick appends exactly one record,
\* whose duration is endTime - startTime and is the work duration in seconds,
\* up to one tick.
C3_OneRecordPerRun ==
    [][/\ (sessions' # sessions) =>
              /\ TickStep /\ isWorkTime /\ timeLeft = 1
              /\ Len(sessions') = Len(sessions) + 1
              /\ SubSeq(sessions', 1, Len(sessions)) = sessions
              /\ LastSession.duration = LastSession.endTime - LastSession.startTime
              /\ LastSession.duration >= workMinutes * SecondsPerMinute - 1
              /\ LastSession.duration <= workMinutes * SecondsPerMinute + 1
       /\ (TickStep /\ isWorkTime /\ timeLeft = 1) => WorkCompletes]_vars

\* a two-minute Work interval has run to zero and left its record
C3_Witness ==
    /\ Len(sessions) = 1
    /\ workMinutes = 2
    /\ sessions[1].duration = 2 * SecondsPerMinute
    /\ ~isRunning

\* C4: a call of startTimer while the timer is running (the delayed call that
\* a completion scheduled, after the user has started the timer by hand)
\* changes nothing: timeLeft, startTime, the Work/Break flag and the flags stay
\* and no second interval is created.
C4_StartWhileRunning ==
    [][(TimeoutStep /\ isRunning) =>
          /\ UNCHANGED <<timeLeft, startTime, isWorkTime, isRunning, isPaused,
                         timer, strayIntervals, disabled>>
          /\ strayIntervals' = 0]_vars

\* the timer runs and a delayed startTimer is still to come
C4_Witness == isRunning /\ timer = "live" /\ Len(timeouts) > 0 /\ timeLeft < workMinutes * SecondsPerMinute

\* C5: from every reachable state resetTimer gives: not running, not paused,
\* Work, timeLeft the work duration read from the field, count 0, the
\* duration fields and the goal selector enabled, no live interval.
C5_ResetResult ==
    LET r == ResetTimer(World)
    IN  /\ ~r.isRunning /\ ~r.isPaused /\ r.isWorkTime
        /\ r.workMinutes = ParseIntOr(value["work-minutes"], DefaultWorkMinutes)
        /\ r.breakMinutes = ParseIntOr(value["break-minutes"], DefaultBreakMinutes)
        /\ r.timeLeft = r.workMinutes * SecondsPerMinute
        /\ r.currentPomodoroCount = 0
        /\ \A e \in InputIds : ~r.disabled[e]
        /\ ~r.disabled["start-btn"]
        /\ r.timer # "live" /\ r.strayIntervals = 0

\* the state a Reset leaves behind after the first pomodoro of a three-pomodoro
\* goal: the record is in the log, the goal is still selected, the count is 0
C5_Witness ==
    /\ Len(sessions) = 1 /\ sessions[1].goalId = "g3"
    /\ value["goal-select"] = "g3"
    /\ currentPomodoroCount = 0 /\ totalPomodoros = 3
    /\ ~isRunning /\ ~isPaused /\ isWorkTime /\ InputsUnlocked
    /\ timeLeft = workMinutes * SecondsPerMinute

\* C6: resetTimer cancels every pending countdown: after it no delayed
\* startTimer is pending, so the timer stays idle until the user starts it.
C6_ResetCancelsPendingStart ==
    [][Becomes(ResetTimer(World)) => timeouts' = <<>>]_vars

\* C7: a Work completion that brings the count to the target leaves the timer
\* not running, in Work, with timeLeft the work duration, the count kept at
\* the target, the inputs enabled and no delayed start scheduled.
C7_TerminalCompletion ==
    [][(WorkCompletes /\ currentPomodoroCount + 1 = totalPomodoros) =>
          /\ ~isRunning' /\ ~isPaused' /\ isWorkTime'
          /\ timeLeft' = workMinutes * SecondsPerMinute
          /\ currentPomodoroCount' = totalPomodoros'
          /\ totalPomodoros' = totalPomodoros
          /\ InputsUnlocked' /\ ~disabled'["start-btn"]
          /\ timer' # "live"
          /\ timeouts' = <<>>]_vars

\* the one pomodoro of goal g1 is done
C7_Witness ==
    /\ value["goal-select"] = "g1" /\ totalPomodoros = 1 /\ currentPomodoroCount = 1
    /\ Len(sessions) = 1 /\ sessions[1].goalId = "g1"
    /\ ~isRunning /\ isWorkTime /\ InputsUnlocked /\ timeouts = <<>>

\* C8: a Work completion below the target switches to Break with timeLeft the
\* break duration and schedules a start; a Break completion below the target
\* switches to Work with timeLeft the work duration, keeps count and target
\* and schedules a start; the scheduled start sets the timer running on the
\* interval that was prepared.
C8_Chaining ==
    [][/\ (WorkCompletes /\ currentPomodoroCount + 1 < totalPomodoros) =>
              /\ ~isWorkTime' /\ ~isRunning'
              /\ timeLeft' = breakMinutes * SecondsPerMinute
              /\ currentPomodoroCount' = currentPomodoroCount + 1
              /\ timeouts' = Append(timeouts, [kind |-> "afterWork", slack |-> 0])
       /\ (BreakCompletes /\ currentPomodoroCount < totalPomodoros) =>
              /\ isWorkTime' /\ ~isRunning'
              /\ timeLeft' = workMinutes * SecondsPerMinute
              /\ currentPomodoroCount' = currentPomodoroCount
              /\ totalPomodoros' = totalPomodoros
              /\ Len(timeouts') = Len(timeouts) + 1
       /\ TimeoutStep =>
              /\ isRunning' /\ timer' = "live"
              /\ timeLeft' = timeLeft /\ isWorkTime' = isWorkTime]_vars

\* the second pomodoro of the three-pomodoro goal runs, after one break
C8_Witness ==
    /\ value["goal-select"] = "g3" /\ totalPomodoros = 3 /\ currentPomodoroCount = 1
    /\ isRunning /\ isWorkTime /\ Len(sessions) = 1
    /\ timeLeft < workMinutes * SecondsPerMinute
    /\ startTime >= sessions[1].endTime + breakMinutes * SecondsPerMinute

\* C9: when the selected goal changes the count becomes 0; the target is the
\* estimated pomodoros of the selected goal and 1 when no goal is selected; a
\* Work completion with no goal selected takes the terminal branch.
C9_GoalBinding ==
    [][/\ (SamePage /\ value'["goal-select"] # value["goal-select"]) =>
              currentPomodoroCount' = 0
       /\ totalPomodoros = TargetOf(value["goal-select"])
       /\ totalPomodoros' = TargetOf(value'["goal-select"])
       /\ (WorkCompletes /\ value["goal-select"] = "") =>
              /\ ~isRunning' /\ isWorkTime' /\ InputsUnlocked'
              /\ timeouts' = timeouts]_vars

\* after the pomodoro of g1 the user has bound g3: count 0 of 3
C9_Witness ==
    /\ Len(sessions) = 1 /\ sessions[1].goalId = "g1"
    /\ value["goal-select"] = "g3"
    /\ currentPomodoroCount = 0 /\ totalPomodoros = 3

\* C10: no step of a page changes the goalText of a record of the session
\* log, in memory or in a newly written local cache; the step that removes a
\* goal from the selector leaves the log and the cache as they are.
C10_LabelKept ==
    [][/\ \A i \in 1..Len(sessions) :
              /\ Len(sessions') >= i
              /\ sessions'[i].goalText = sessions[i].goalText
              /\ (localStorage' # localStorage) =>
                     /\ Len(localStorage'.json) >= i
                     /\ localStorage'.json[i].goalText = sessions[i].goalText
       /\ (options' # options) =>
              /\ sessions' = sessions
              /\ localStorage' = localStorage]_vars

\* the goal of the first record is gone from the selector, a second Work
\* interval has completed, and the first record still carries its label
C10_Witness ==
    /\ Len(sessions) = 2
    /\ sessions[1].goalId = "g1" /\ sessions[1].goalText = "Read"
    /\ ~HasOption(World, "g1")
    /\ localStorage.has /\ Len(localStorage.json) = 2
    /\ localStorage.json[1].goalText = "Read"

\* the start times of a session list, in its order
StartTimes(ss) == [i \in 1..Len(ss) |-> ss[i].startTime]

\* C11: after a page load every record of the session log started on the
\* day the page runs on.
C11_LoadedToday ==
    pageLoads > 0 => \A i \in 1..Len(sessions) : IsToday(sessions[i].startTime, now)

\* C12: a page load given a non-empty list by the server has the records of
\* that list as its session log; given none, and a local cache, it has the
\* records of the cache that started today.
C12_ServerThenCache ==
    [][pageLoads' = pageLoads + 1 =>
          LET served == GetTimer(dbGoals, dbSessions, now)
          IN  /\ served # <<>> =>
                     StartTimes(sessions') = StartTimes(ParseSessions(served, NULL))
              /\ (served = <<>> /\ localStorage.has) =>
                     StartTimes(sessions') =
                         StartTimes(TodayOnly(ParseSessions(localStorage.json, NULL),
                                              now'))]_vars

\* C13: a record of today that the server has stored and whose goal has been
\* deleted is, after a reload of the page, still in the session log with the
\* label it was recorded with.
C13_LabelSurvivesDeletion ==
    [][pageLoads' = pageLoads + 1 =>
          \A i \in 1..Len(sessions) :
              (/\ sessions[i].goalId # NULL
               /\ sessions[i].goalText # NULL
               /\ dbGoals[sessions[i].goalId] = "Deleted"
               /\ \E k \in 1..Len(dbSessions) :
                      dbSessions[k].start_time = sessions[i].startTime
               /\ IsToday(sessions[i].startTime, now'))
              => \E j \in 1..Len(sessions') :
                     /\ sessions'[j].startTime = sessions[i].startTime
                     /\ sessions'[j].goalText = sessions[i].goalText]_vars

\* C14: matchGoalIdsWithDropdown gives every session whose goal is among the
\* options the text of that option as its label, leaves every other session
\* as it is, changes no other field and adds or removes no session.
C14_Reconciliation ==
    [][pageLoads' = pageLoads + 1 =>
          /\ Len(sessions') = Len(sessions)
          /\ \A i \in 1..Len(sessions) :
                 IF sessions[i].goalId # NULL /\ HasOption(World, sessions[i].goalId)
                 THEN sessions'[i] =
                          [sessions[i] EXCEPT !.goalText = GoalTitle(sessions[i].goalId)]
                 ELSE sessions'[i] = sessions[i]
          /\ options' = options]_vars

\* the first session has taken the text of its goal's option, the second,
\* whose goal is not among the options, keeps the label it was stored with
C14_Witness ==
    /\ pageLoads = 1 /\ Len(sessions) = 2
    /\ sessions[1].goalId = "g1" /\ sessions[1].goalText = "Read"
    /\ sessions[2].goalId = "g3" /\ sessions[2].goalText = "Reading"
    /\ HasOption(World, "g1") /\ ~HasOption(World, "g3")

InputsLocked == \A e \in InputIds : disabled[e]

\* C15: pauseTimer on a running timer clears the interval and gives a paused
\* timer with timeLeft, the Work/Break flag, startTime, the count and the target
\* as they were and the inputs still disabled; on a timer that is not running
\* it changes nothing.
C15_PauseResult ==
    LET p == PauseTimer(World)
    IN  IF isRunning
        THEN /\ ~p.isRunning /\ p.isPaused
             /\ p.timer # "live" /\ p.strayIntervals = 0
             /\ p.timeLeft = timeLeft /\ p.isWorkTime = isWorkTime
             /\ p.startTime = startTime
             /\ p.currentPomodoroCount = currentPomodoroCount
             /\ p.totalPomodoros = totalPomodoros
             /\ p.sessions = sessions
             /\ \A e \in InputIds : p.disabled[e]
        ELSE p = World

\* a Work interval paused after some of its ticks
C15_Witness ==
    /\ isPaused /\ ~isRunning /\ isWorkTime /\ timer = "cleared"
    /\ timeLeft < workMinutes * SecondsPerMinute /\ timeLeft > 0
    /\ InputsLocked /\ ~disabled["start-btn"]

\* C16: a start of an idle timer sets startTime to the current time; a start
\* of a paused timer leaves startTime and timeLeft as they are; startTime
\* changes at no other step, and the record of a Work interval carries it.
C16_StartTimeOfInterval ==
    [][/\ (~isRunning /\ isRunning') =>
              IF isPaused
              THEN startTime' = startTime /\ timeLeft' = timeLeft /\ ~isPaused'
              ELSE startTime' = now
       /\ (startTime' # startTime) => (~isRunning /\ ~isPaused /\ isRunning')
       /\ WorkCompletes =>
              /\ LastSession.startTime = startTime
              /\ LastSession.duration >= workMinutes * SecondsPerMinute]_vars

\* a one-minute Work interval that was paused for a second has left its record
C16_Witness ==
    /\ Len(sessions) = 1
    /\ sessions[1].duration = SecondsPerMinute + 1
    /\ sessions[1].startTime = FirstLoad
    /\ sessions[1].endTime = now

\* C17: while the timer runs or is paused the duration fields and the goal
\* selector are disabled; a step enables one of them only if it is resetTimer,
\* a Work completion that meets the target, or a Break completion with the
\* target met.
C17_InputsLockedInRun ==
    [][/\ (isRunning \/ isPaused) => InputsLocked
       /\ (isRunning' \/ isPaused') => InputsLocked'
       /\ (\E e \in InputIds : disabled[e] /\ ~disabled'[e]) =>
              \/ Becomes(ResetTimer(World))
              \/ WorkCompletes /\ currentPomodoroCount' >= totalPomodoros'
              \/ BreakCompletes /\ currentPomodoroCount >= totalPomodoros]_vars

\* the Break after the first pomodoro of the three-pomodoro goal is paused,
\* and the inputs are disabled
C17_Witness ==
    /\ isPaused /\ ~isWorkTime /\ InputsLocked
    /\ currentPomodoroCount = 1 /\ totalPomodoros = 3

\* C18: no step taken while the timer runs or is paused changes a duration
\* field, workMinutes or breakMinutes; a step that changes a duration field
\* finds the timer idle and loads workMinutes, breakMinutes and timeLeft from
\* the fields.
C18_ConfigReadWhenIdle ==
    [][/\ (isRunning \/ isPaused) =>
              /\ value'["work-minutes"] = value["work-minutes"]
              /\ value'["break-minutes"] = value["break-minutes"]
              /\ workMinutes' = workMinutes
              /\ breakMinutes' = breakMinutes
       /\ (SamePage /\ \E e \in {"work-minutes", "break-minutes"} : value'[e] # value[e]) =>
              /\ ~isRunning /\ ~isPaused
              /\ workMinutes' = ParseIntOr(value'["work-minutes"], DefaultWorkMinutes)
              /\ breakMinutes' = ParseIntOr(value'["break-minutes"], DefaultBreakMinutes)
              /\ timeLeft' = workMinutes' * SecondsPerMinute]_vars

\* both fields were set to 2 while the timer was idle; the Work interval of
\* two minutes now runs with the fields disabled
C18_Witness ==
    /\ isRunning /\ isWorkTime
    /\ value["work-minutes"] = "2" /\ value["break-minutes"] = "2"
    /\ workMinutes = 2 /\ breakMinutes = 2
    /\ timeLeft < workMinutes * SecondsPerMinute
    /\ disabled["work-minutes"] /\ disabled["break-minutes"]

\* C19: in every state workMinutes and breakMinutes are positive, and a field
\* that holds 0 or no number gives the default, 25 minutes of work and 5
\* minutes of break.
C19_PositiveDurations ==
    /\ workMinutes > 0 /\ breakMinutes > 0
    /\ (~IsNumeric(value["work-minutes"]) \/ ParseInt(value["work-minutes"]) = 0)
           => workMinutes = DefaultWorkMinutes
    /\ (~IsNumeric(value["break-minutes"]) \/ ParseInt(value["break-minutes"]) = 0)
           => breakMinutes = DefaultBreakMinutes

\* C20: timeLeft is never negative.
C20_TimeLeftNotNegative == timeLeft >= 0

\* the tick that brings a running Work interval to zero
WorkEnds == TickStep /\ isWorkTime /\ timeLeft <= 1

\* C21: the tick that ends a Work interval appends exactly one record, a Work
\* record, to the session log; no other step of the page (the end of a Break,
\* start, pause, reset, another tick, goal selection, an answer of the server)
\* changes the log.
C21_OnlyWorkRecords ==
    [][/\ WorkEnds =>
              /\ Len(sessions') = Len(sessions) + 1
              /\ SubSeq(sessions', 1, Len(sessions)) = sessions
              /\ LastSession.isWorkSession
       /\ ~WorkEnds => sessions' = sessions]_vars

\* the Break after the first pomodoro of the three-pomodoro goal has ended:
\* the log still holds the one record
C21_Witness ==
    /\ Len(sessions) = 1 /\ sessions[1].isWorkSession
    /\ currentPomodoroCount = 1 /\ totalPomodoros = 3
    /\ isWorkTime /\ ~isRunning /\ ~isPaused
    /\ timeLeft = workMinutes * SecondsPerMinute
    /\ now >= sessions[1].endTime + breakMinutes * SecondsPerMinute

\* C22: a request to mark a goal completed is issued by the Work completion
\* that meets the target while a goal is selected, for the selected goal; no
\* other step issues one.
C22_MarkOnTerminalWork ==
    [][IF WorkEnds /\ currentPomodoroCount + 1 >= totalPomodoros
          /\ value["goal-select"] # ""
       THEN completeReqs' = Append(completeReqs, value["goal-select"])
       ELSE \/ completeReqs' = completeReqs
            \/ \E i \in 1..Len(completeReqs) :
                   completeReqs' = RemoveAt(completeReqs, i)]_vars

\* the pomodoro of g1 is done and the request for g1 is on its way
C22_Witness ==
    /\ completeReqs = <<"g1">>
    /\ Len(sessions) = 1 /\ sessions[1].goalId = "g1"
    /\ sessions[1].pomodoroNumber = 1 /\ sessions[1].totalPomodoros = 1
    /\ HasOption(World, "g1")

\* the binding of the page: options, selected goal, count and target
Binding == <<options, value["goal-select"], currentPomodoroCount, totalPomodoros>>

\* C23: the success handler of a completeGoal request for goal g removes the
\* option of g and leaves no goal selected, count 0 and target 1; a step that
\* settles a request for g either does that, with g Completed at the server,
\* or leaves options, selection, count and target as they are, and it leaves
\* them when the request did not complete g; no other step removes an option.
C23_CompleteGoalAnswer ==
    [][/\ \A g \in Goals :
              LET r == GoalCompletedResponse(World, g)
              IN  /\ r.options = {o \in options : o.value # g}
                  /\ r.value["goal-select"] = ""
                  /\ r.currentPomodoroCount = 0
                  /\ r.totalPomodoros = DefaultTotalPomodoros
       /\ \A i \in 1..Len(completeReqs) :
              completeReqs' = RemoveAt(completeReqs, i) =>
                  LET g == completeReqs[i]
                  IN  /\ \/ /\ dbGoals'[g] = "Completed"
                            /\ Binding' = <<{o \in options : o.value # g}, "", 0,
                                            DefaultTotalPomodoros>>
                         \/ Binding' = Binding
                      /\ dbGoals'[g] # "Completed" => Binding' = Binding
       /\ options' # options => Len(completeReqs') < Len(completeReqs)]_vars

\* the request for g1 was answered with success: g1 is gone from the
\* selector, g3 is still there, and no goal is selected
C23_Witness ==
    /\ completeReqs = <<>> /\ dbGoals["g1"] = "Completed"
    /\ ~HasOption(World, "g1") /\ HasOption(World, "g3")
    /\ value["goal-select"] = ""
    /\ currentPomodoroCount = 0 /\ totalPomodoros = 1
    /\ Len(sessions) = 1 /\ sessions[1].goalId = "g1"

\* positions of the records of the log that a request was sent for
RecordsOf(req) ==
    {k \in 1..Len(sessions) : sessions[k].startTime = NewDate(req.startTime)}

\* C24: the step that settles the request sent for a record puts the badge
\* on the list item of that record and on no other item.
C24_BadgeOnItsEntry ==
    [][\A i \in 1..Len(saveReqs) :
           (SamePage /\ saveReqs' = RemoveAt(saveReqs, i)) =>
               (annotated' \ annotated) \subseteq RecordsOf(saveReqs[i])]_vars

\* what a failed submission must leave alone
TimerAndLog ==
    <<isRunning, isPaused, isWorkTime, timeLeft, startTime, timer, timeouts,
      currentPomodoroCount, totalPomodoros, sessions, value, options, disabled,
      localStorage>>

\* C25: a step that settles a submission without success (the request for a
\* session is lost or answered with 500, the request to complete a goal is
\* lost or answered with 404) leaves the timer, the count and target, the
\* session log, the selection and the selector as they are.
C25_FailureLeavesState ==
    [][/\ \A i \in 1..Len(saveReqs) :
              (/\ SamePage
               /\ saveReqs' = RemoveAt(saveReqs, i)
               /\ \/ dbSessions' = dbSessions
                  \/ RecordPomodoroFails(World, saveReqs[i]))
              => UNCHANGED TimerAndLog
       /\ \A i \in 1..Len(completeReqs) :
              (/\ SamePage
               /\ completeReqs' = RemoveAt(completeReqs, i)
               /\ \/ dbGoals'[completeReqs[i]] # "Completed"
                  \/ ~CompleteGoalFound(World, completeReqs[i]))
              => UNCHANGED TimerAndLog]_vars

\* the goal was deleted while the request to complete it was on its way: the
\* request has been answered with 404, the goal is still selected, the count
\* stays at the target and the record is in the log
C25_Witness ==
    /\ completeReqs = <<>> /\ dbGoals["g1"] = "Deleted"
    /\ value["goal-select"] = "g1" /\ HasOption(World, "g1")
    /\ currentPomodoroCount = 1 /\ totalPomodoros = 1
    /\ Len(sessions) = 1 /\ sessions[1].goalId = "g1"
    /\ pageLoads = 0 /\ ~isRunning

\* C26: whenever the timer is running an interval is live, so that the next
\* tick is scheduled.
C26_RunningHasCountdown == isRunning => IntervalLive(World)

\* C27: the answer to POST /goals/pomodoro has goalUpdated true exactly when
\* the request names a goal of the user that exists, is completed with
\* pomodoroNumber >= totalPomodoros, and the goal is Completed after it.
C27_GoalUpdatedExact ==
    \A req \in PomodoroRequests :
        LET data == RecordPomodoroResponse(World, req)
            after == RecordPomodoro(World, req)
        IN  data.goalUpdated <=>
                /\ req.goalId \in Goals
                /\ dbGoals[req.goalId] # "Deleted"
                /\ req.completed
                /\ req.pomodoroNumber >= req.totalPomodoros
                /\ after.dbGoals[req.goalId] = "Completed"

\* C28: a Work completion that writes the cache leaves in it the serialization
\* of the whole session log, every record in order; no other step of the page
\* writes the cache.
C28_CacheIsWholeLog ==
    [][/\ (WorkEnds /\ localStorage' # localStorage) =>
              localStorage' = [has |-> TRUE, json |-> Serialize(sessions')]
       /\ (SamePage /\ ~WorkEnds) => localStorage' = localStorage]_vars

\* two records in the log and in the cache
C28_Witness ==
    /\ Len(sessions) = 2
    /\ localStorage.has
    /\ localStorage.json = Serialize(sessions)

\* the page after the callback of the interval, apart from the cache
AfterCompletion(w) ==
    <<w.sessions, w.saveReqs, w.completeReqs, w.annotated, w.isRunning,
      w.isPaused, w.isWorkTime, w.timeLeft, w.startTime, w.timer, w.timeouts,
      w.currentPomodoroCount, w.totalPomodoros, w.value, w.options, w.disabled>>

\* C29: a Work completion whose cache write fails (the cache is left as it
\* was) appends the record, sends one request for it, regenerates the list
\* and leaves the timer, the binding and the pending requests exactly as the
\* completion with a successful write does.
C29_WriteFailureIsSwallowed ==
    [][(WorkEnds /\ localStorage' = localStorage) =>
           /\ Len(sessions') = Len(sessions) + 1
           /\ Len(saveReqs') = Len(saveReqs) + 1
           /\ saveReqs'[Len(saveReqs')].startTime = ToISOString(LastSession.startTime)
           /\ annotated' = {}
           /\ AfterCompletion(World') =
                  AfterCompletion(IntervalCallback(Advance(World), TRUE))]_vars

\* the first record was made, its cache write failed, its request is on the way
C29_Witness ==
    /\ Len(sessions) = 1
    /\ ~localStorage.has
    /\ Len(saveReqs) = 1
    /\ saveReqs[1].startTime = ToISOString(sessions[1].startTime)

\* C30: the Work completion that creates a record sends exactly one request,
\* the one for that record; every other step (an answer or a failure of a
\* request, a later tick, a click, a page reload) sends none: it leaves the
\* requests on the way as they are or settles one of them.
C30_SubmittedOnce ==
    [][/\ WorkEnds =>
              /\ Len(saveReqs') = Len(saveReqs) + 1
              /\ SubSeq(saveReqs', 1, Len(saveReqs)) = saveReqs
              /\ saveReqs'[Len(saveReqs')] =
                     [goalId |-> LastSession.goalId,
                      startTime |-> ToISOString(LastSession.startTime),
                      endTime |-> ToISOString(LastSession.endTime),
                      completed |-> TRUE,
                      pomodoroNumber |-> LastSession.pomodoroNumber,
                      totalPomodoros |-> LastSession.totalPomodoros]
       /\ ~WorkEnds =>
              \/ saveReqs' = saveReqs
              \/ \E i \in 1..Len(saveReqs) : saveReqs' = RemoveAt(saveReqs, i)]_vars

\* after a reload the record is in the log again, the server has its one row
\* and no request is on the way
C30_Witness ==
    /\ pageLoads = 1
    /\ Len(sessions) = 1
    /\ Len(dbSessions) = 1
    /\ saveReqs = <<>>

\* C31: the records of the session log are in non-decreasing order of their
\* start time, oldest first, in every state of the page, also after a reload
\* that takes the log from the server.
C31_OldestFirst ==
    \A i, j \in 1..Len(sessions) :
        i < j => sessions[i].startTime <= sessions[j].startTime

\* one list is the beginning of the other
IsPrefix(short, long) ==
    Len(short) <= Len(long) /\ SubSeq(long, 1, Len(short)) = short

\* C32: no step of a loaded page removes a record of the session log or
\* changes a field of one: the log before the step is the beginning of the log
\* after it; and on every state the handlers of the answers to a submitted
\* session and to a completed goal leave the log as it is.
C32_AppendOnly ==
    [][/\ SamePage => IsPrefix(sessions, sessions')
       /\ \A i \in 1..Len(saveReqs), goalUpdated \in BOOLEAN :
              /\ SessionSavedResponse(World, saveReqs[i],
                     [success |-> TRUE, goalUpdated |-> goalUpdated]).sessions = sessions
              /\ SessionSaveFailure(World, saveReqs[i]).sessions = sessions
       /\ \A g \in Goals :
              /\ GoalCompletedResponse(World, g).sessions = sessions
              /\ GoalCompletedFailure(World, g).sessions = sessions]_vars

\* the record of the first pomodoro of "Write" is in the log, its request is
\* on the way, and the Break that followed it is paused
C32_Witness ==
    /\ Len(sessions) = 1
    /\ sessions[1].goalId = "g3"
    /\ Len(saveReqs) = 1
    /\ isPaused
    /\ ~isWorkTime

\* C33: the record a Work completion appends carries the goal selected at
\* that moment (null if none), the text of its option, the count after the
\* increment as its number and the target of that moment.
C33_RecordSnapshot ==
    [][WorkEnds =>
           LET v == value["goal-select"]
           IN  /\ LastSession.goalId = IF v # "" THEN v ELSE NULL
               /\ LastSession.goalText =
                      IF v # "" /\ HasOption(World, v)
                      THEN SelectedOption(World).text ELSE NULL
               /\ LastSession.pomodoroNumber = currentPomodoroCount + 1
               /\ LastSession.pomodoroNumber = currentPomodoroCount'
               /\ LastSession.totalPomodoros = totalPomodoros]_vars

\* a record of "Write" and, before it, a record made with no goal selected
C33_Witness ==
    /\ Len(sessions) = 2
    /\ sessions[1].goalId = NULL
    /\ sessions[1].goalText = NULL
    /\ sessions[2].goalId = "g3"
    /\ sessions[2].goalText = "Write"
    /\ sessions[2].pomodoroNumber = 1
    /\ sessions[2].totalPomodoros = 3

\* C34: a step that begins with the timer running or paused and does not end
\* the run (the timer is still running or paused after it, or the step is a
\* Work completion) leaves the selected goal and the target as they are and
\* changes the count only by the increment of a Work completion.
C34_BindingStableInRun ==
    [][(/\ SamePage
        /\ isRunning \/ isPaused
        /\ isRunning' \/ isPaused' \/ WorkEnds) =>
           /\ value'["goal-select"] = value["goal-select"]
           /\ totalPomodoros' = totalPomodoros
           /\ \/ currentPomodoroCount' = currentPomodoroCount
              \/ WorkEnds /\ currentPomodoroCount' = currentPomodoroCount + 1]_vars

\* C35: a step that begins with the timer paused leaves it paused with the
\* same timeLeft, unless it is the click on Start or on Reset; a delayed
\* startTimer is neither.
C35_PausedUntilUserActs ==
    [][(SamePage /\ isPaused) =>
           \/ isPaused' /\ ~isRunning' /\ timeLeft' = timeLeft
           \/ /\ ~TimeoutStep
              /\ \/ World' = StartTimer(World)
                 \/ World' = ResetTimer(World)]_vars

\* C36: there is never an interval besides the one `timer` refers to, that
\* one is live exactly while the timer is running, and a second of running
\* either takes timeLeft down by one or, at the end of the interval, runs
\* completeSession once: the count goes up by at most one and the log grows
\* by at most one record.
C36_OneCountdown ==
    [][/\ strayIntervals = 0 /\ strayIntervals' = 0
       /\ (timer = "live") <=> isRunning
       /\ (timer' = "live") <=> isRunning'
       /\ (TickStep /\ timeLeft > 1) => timeLeft' = timeLeft - 1
       /\ (TickStep /\ timeLeft <= 1) =>
              /\ ~isRunning' /\ timer' # "live"
              /\ timeLeft' = IntervalLength(World')
              /\ isWorkTime =>
                     /\ currentPomodoroCount' = currentPomodoroCount + 1
                     /\ Len(sessions') = Len(sessions) + 1
              /\ ~isWorkTime => UNCHANGED <<currentPomodoroCount, sessions>>]_vars

\* after a Break the user has started the next pomodoro by hand while the
\* delayed startTimer of the Break's end is still to come
C36_Witness ==
    /\ isRunning
    /\ isWorkTime
    /\ Len(sessions) = 1
    /\ Len(timeouts) > 0
    /\ timeouts[1].kind = "afterBreak"

\* the end of a run of N pomodoros: idle, in Work, inputs enabled, nothing
\* scheduled, N records numbered 1..N of N, one Break between each record and
\* the next and none after the last
RunDone ==
    /\ ~isRunning /\ ~isPaused /\ isWorkTime
    /\ InputsUnlocked
    /\ timer # "live" /\ timeouts = <<>>
    /\ timeLeft = workMinutes * SecondsPerMinute
    /\ Len(sessions) >= 1
    /\ Len(sessions) = TargetOf(sessions[1].goalId)
    /\ \A k \in 1..Len(sessions) :
           /\ sessions[k].pomodoroNumber = k
           /\ sessions[k].totalPomodoros = Len(sessions)
           /\ sessions[k].duration = workMinutes * SecondsPerMinute
           /\ k > 1 => sessions[k].startTime - sessions[k - 1].endTime
                           = breakMinutes * SecondsPerMinute
    /\ now = sessions[Len(sessions)].endTime

\* C37: once the timer has been started for a bound goal with target N and
\* nothing else is done, it reaches the end of the run and stays there: idle,
\* in Work, inputs enabled, with exactly N records numbered 1, 2, ..., N and
\* N - 1 Breaks between them.
C37_RunCompletes == ([]~isRunning) \/ <>[]RunDone

\* the run of "Write" has ended with its three records
C37_Witness ==
    /\ RunDone
    /\ Len(sessions) = 3
    /\ sessions[3].goalId = "g3"
    /\ sessions[3].pomodoroNumber = 3

\* C38: no request of the user changes the status or the existence of a goal
\* of another user, and no row of the user's pomodoro sessions refers to a
\* goal of another user.
C38_GoalsIsolated ==
    [][/\ \A g \in OtherGoals : dbGoals'[g] = dbGoals[g]
       /\ \A i \in 1..Len(dbSessions') : dbSessions'[i].goal_id \notin OtherGoals]_vars

\* C39: the score of getProductivityScore and each of its five component
\* scores are between 0 and 100, whatever goals and sessions are stored.
C39_ScoreInRange ==
    LET answer == GetProductivityScore(dbGoals, dbSessions, now)
    IN  /\ answer.score \in 0..Percent
        /\ \A c \in DOMAIN answer.componentScores :
               answer.componentScores[c] \in 0..Percent

====
